---- MODULE Spec2Model ----
(***************************************************************************)
(* Model of the attribute macro test_with_parameters (src/src/lib.rs).      *)
(*                                                                         *)
(* One expansion is modelled.  Init fixes the annotated `item` and the     *)
(* number `groups` of top-level token trees of the attribute; the content  *)
(* of each token tree is revealed when the parser's cursor reaches it, and *)
(* `tree` is the token tree the cursor took last.                          *)
(* The actions follow the macro step by step: TableSyntax::parse (header   *)
(* group, row groups), the parse of the item as ItemFn, the header arity   *)
(* check, the row arity loop, the enumerate/map that builds the cases, and *)
(* the final quote!.                                                       *)
(*                                                                         *)
(* Token trees are records {kind, delimiter, text, stream, span}.  Spans   *)
(* are kept at the granularity of the top-level group a token was written  *)
(* in: every token of the g-th group of the attribute has span             *)
(* [at |-> "tokens", group |-> g].  Span::call_site() is a span of its own.*)
(***************************************************************************)
EXTENDS Integers, Sequences, FiniteSets, TLC

VARIABLES item, groups, consumed, tree, names_input, args_input,
          column_names, test_inputs, test_fn, idx, cases, output, pc

vars == <<item, groups, consumed, tree, names_input, args_input,
          column_names, test_inputs, test_fn, idx, cases, output, pc>>

(***************************************************************************)
(* Bounds of the explored inputs.                                          *)
(***************************************************************************)
MaxRows == 2

MaxEntries == 2

MaxArity == 2

(***************************************************************************)
(* Spans and token trees.                                                  *)
(***************************************************************************)
CallSite == [at |-> "call_site", group |-> 0]

TokensSpan(g) == [at |-> "tokens", group |-> g]

Ident(text, g) ==
    [kind |-> "Ident", delimiter |-> "None", text |-> text, stream |-> <<>>,
     span |-> TokensSpan(g)]

Literal(text, g) ==
    [kind |-> "Literal", delimiter |-> "None", text |-> text, stream |-> <<>>,
     span |-> TokensSpan(g)]

Comma(g) ==
    [kind |-> "Punct", delimiter |-> "None", text |-> ",", stream |-> <<>>,
     span |-> TokensSpan(g)]

\* A parenthesised group inside a row, e.g. the tuple (1, 1); its inner
\* tokens are never inspected by the macro, so they are kept as text.
Paren(text, g) ==
    [kind |-> "Group", delimiter |-> "Parenthesis", text |-> text,
     stream |-> <<>>, span |-> TokensSpan(g)]

Bracket(stream, g) ==
    [kind |-> "Group", delimiter |-> "Bracket", text |-> "", stream |-> stream,
     span |-> TokensSpan(g)]

\* The cursor has not taken a token tree yet.
NoTree ==
    [kind |-> "None", delimiter |-> "None", text |-> "", stream |-> <<>>,
     span |-> [at |-> "call_site", group |-> 0]]

IsComma(t) == t.kind = "Punct" /\ t.text = ","

(***************************************************************************)
(* syn: Ident::parse and Expr::parse on the token alphabet above.  Every   *)
(* expression of the alphabet is a single token tree: an identifier (a     *)
(* path), a literal, or a parenthesised group.                             *)
(***************************************************************************)
Accepts(what, t) ==
    IF what = "Ident"
    THEN t.kind = "Ident"
    ELSE \/ t.kind = "Ident"
         \/ t.kind = "Literal"
         \/ (t.kind = "Group" /\ t.delimiter = "Parenthesis")

(***************************************************************************)
(* syn: Punctuated<T, Token![,]>.  `values` are the entries; the           *)
(* punctuation carries nothing the macro reads and is not kept.            *)
(***************************************************************************)
EmptyPunctuated == [values |-> <<>>]

\* Punctuated::len(): the number of values; punctuation is not counted.
PunctuatedLen(p) == Len(p.values)

\* spanned::Spanned::span() of a Punctuated: the span joining its first and
\* last token, and Span::call_site() when it has no token at all.
PunctuatedSpan(p) ==
    IF Len(p.values) = 0 THEN CallSite ELSE p.values[1].span

ParseFailure == [ok |-> FALSE, values |-> <<>>]

\* The loop of ParseBuffer::parse_terminated: stop on an empty input, parse
\* a value, stop on an empty input, parse a comma, repeat.
RECURSIVE ParseLoop(_, _, _)
ParseLoop(stream, what, values) ==
    IF stream = <<>>
    THEN [ok |-> TRUE, values |-> values]
    ELSE IF ~Accepts(what, Head(stream))
    THEN ParseFailure
    ELSE IF Tail(stream) = <<>>
    THEN [ok |-> TRUE, values |-> Append(values, Head(stream))]
    ELSE IF ~IsComma(Head(Tail(stream)))
    THEN ParseFailure
    ELSE ParseLoop(Tail(Tail(stream)), what, Append(values, Head(stream)))

\* Mutation for C9: a list ending in a comma is rejected.
ParseTerminatedNoTrailing(stream, what) ==
    IF stream # <<>> /\ IsComma(stream[Len(stream)])
    THEN ParseFailure
    ELSE ParseLoop(stream, what, <<>>)

ParseTerminated(stream, what) == ParseLoop(stream, what, <<>>)

\* syn::bracketed!: the next token tree must be a group in square brackets.
IsBracketed(t) == t.kind = "Group" /\ t.delimiter = "Bracket"

(***************************************************************************)
(* Items and generated output.                                             *)
(***************************************************************************)
NoItem ==
    [kind |-> "none", attrs |-> <<>>, ident |-> "", inputs |-> <<>>,
     body |-> <<>>]

Call(callee, args) == [call |-> callee, args |-> args]

ItemFn(attrs, ident, inputs, body) ==
    [kind |-> "fn", attrs |-> attrs, ident |-> ident, inputs |-> inputs,
     body |-> body]

\* The diagnostic syn reports for a parse failure; its text and place are
\* those of syn's grammar, not of this crate.
SynSpan == [at |-> "syn", group |-> 0]

SynError ==
    [kind |-> "compile_error", message |-> "syn::Error", span |-> SynSpan]

HeaderMessage ==
    "Number of parameters does not match the test function's arity."

RowMessage == "This case has the wrong number of arguments."

CompileError(message, span) ==
    [kind |-> "compile_error", message |-> message, span |-> span]

Digit(d) ==
    CASE d = 0 -> "0" [] d = 1 -> "1" [] d = 2 -> "2" [] d = 3 -> "3"
      [] d = 4 -> "4" [] d = 5 -> "5" [] d = 6 -> "6" [] d = 7 -> "7"
      [] d = 8 -> "8" [] d = 9 -> "9"

\* Display of a usize: its decimal digits, most significant first.
RECURSIVE Decimal(_)
Decimal(n) == IF n < 10 THEN Digit(n) ELSE Decimal(n \div 10) \o Digit(n % 10)

\* Mutation for C2: cases numbered from one.
FnNameFromOne(ident, i) == ident \o "_case" \o Decimal(i + 1)

\* Mutation for C10: the index left out of the name.
FnNameNoIndex(ident, i) == ident \o "_case"

\* format_ident!("{}_case{}", &test_fn.sig.ident, idx)
FnName(ident, i) == ident \o "_case" \o Decimal(i)

\* Mutation for C3: the last expression of the row is dropped.
ArgsSplatDropLast(args) == SubSeq(args.values, 1, Len(args.values) - 1)

\* quote! { #(#args),* }: the row's expressions, in order.
ArgsSplat(args) == args.values

\* Mutation for C6: the case is emitted without #[test].
CaseFnUntagged(fn, i, args) ==
    ItemFn(<<>>, fn.ident \o "_case" \o Decimal(i), <<>>,
           <<[call |-> fn.ident, args |-> args.values]>>)

\* quote! { #[test] fn #fn_name() { #call(#args_splat) } }
CaseFn(fn, i, args) ==
    ItemFn(<<"test">>, FnName(fn.ident, i), <<>>,
           <<Call(fn.ident, ArgsSplat(args))>>)

\* Mutation for C1: the original function is not emitted again.
ExpandedCasesOnly(fn, cs) == cs

\* quote! { #test_fn #(#cases)* }
Expanded(fn, cs) == <<fn>> \o cs

HeaderMismatch(names, fn) == PunctuatedLen(names) # Len(fn.inputs)

\* Mutation for C8: a row of the wrong length is let through.
RowMismatchIgnored(args, fn) == FALSE

RowMismatch(args, fn) == PunctuatedLen(args) # Len(fn.inputs)

(***************************************************************************)
(* The inputs explored.                                                    *)
(***************************************************************************)
\* The expressions rows are written with: a path and an integer literal.
Atoms(g) == {Ident("a", g), Literal("1", g)}

EntrySeqs(g) == UNION {[1..n -> Atoms(g)] : n \in 0..MaxEntries}

\* The entries separated by commas, with or without a trailing comma.
Written(entries, trailing, g) ==
    [i \in 1..(2 * Len(entries) - (IF trailing \/ entries = <<>> THEN 0 ELSE 1)
                + (IF trailing /\ entries = <<>> THEN 1 ELSE 0)) |->
        IF i % 2 = 1 /\ entries # <<>> THEN entries[(i + 1) \div 2] ELSE Comma(g)]

\* Two entries with no comma between them.
Unseparated(g) == <<Ident("a", g), Literal("1", g)>>

\* The column names of the documented example: [ "input" , "expected" ].
DocNames ==
    <<Literal("\"input\"", 1), Comma(1), Literal("\"expected\"", 1)>>

\* The same column names written as identifiers: [ input , expected ].
IdentNames == <<Ident("input", 1), Comma(1), Ident("expected", 1)>>

\* The rows of the documented example: [ (1, 1) , 2 ] and [ (2, 2) , 4 ].
DocRows(g) ==
    {<<Paren("(1, 1)", g), Comma(g), Literal("2", g)>>,
     <<Paren("(2, 2)", g), Comma(g), Literal("4", g)>>}

Streams(g) ==
    {Written(e, t, g) : e \in EntrySeqs(g), t \in BOOLEAN}
        \cup {Unseparated(g)}
        \cup (IF g = 1 THEN {DocNames, IdentNames} ELSE DocRows(g))

\* The token trees that may stand at position g of the attribute: a group in
\* square brackets, or a token that is no group.
Trees(g) == {Bracket(s, g) : s \in Streams(g)} \cup {Literal("1", g)}

Params(n) == [i \in 1..n |-> "x"]

OpaqueBody == <<Call("assert_eq!", <<>>)>>

\* fn add_works(input: (usize, usize), expected: usize) of the documentation.
AddWorks == ItemFn(<<>>, "add_works", <<"input", "expected">>, OpaqueBody)

\* An item that is no function.
StructItem ==
    [kind |-> "struct", attrs |-> <<>>, ident |-> "S", inputs |-> <<>>,
     body |-> <<>>]

Items ==
    {ItemFn(<<>>, "f", Params(n), OpaqueBody) : n \in 0..MaxArity}
        \cup {ItemFn(<<"ignore">>, "f_case0", Params(1), OpaqueBody)}
        \cup {AddWorks, StructItem}

(***************************************************************************)
(* The expansion.                                                          *)
(***************************************************************************)
Init ==
    /\ item \in Items
    /\ groups \in 0..(MaxRows + 1)
    /\ consumed = 0
    /\ tree = NoTree
    /\ names_input = <<>>
    /\ args_input = <<>>
    /\ column_names = EmptyPunctuated
    /\ test_inputs = <<>>
    /\ test_fn = NoItem
    /\ idx = 0
    /\ cases = <<>>
    /\ output = <<>>
    /\ pc = "parse_header"

\* parse_macro_input!: a parse error returns its compile_error! at once.
ReturnSynError ==
    /\ output' = <<SynError>>
    /\ pc' = "done"

\* TableSyntax::parse, the column names: bracketed!(names_input in input)
\* and names_input.parse_terminated(Ident::parse).
ParseColumnNames ==
    /\ pc = "parse_header"
    /\ IF groups = 0
       THEN /\ ReturnSynError
            /\ UNCHANGED <<consumed, tree, names_input, column_names>>
       ELSE \E t \in Trees(1) :
            /\ consumed' = 1
            /\ tree' = t
            /\ IF ~IsBracketed(t)
               THEN /\ ReturnSynError
                    /\ UNCHANGED <<names_input, column_names>>
               ELSE /\ names_input' = t.stream
                    /\ IF ParseTerminated(t.stream, "Ident").ok
                       THEN /\ column_names' =
                                 [values |->
                                    ParseTerminated(t.stream, "Ident").values]
                            /\ pc' = "parse_rows"
                            /\ UNCHANGED output
                       ELSE /\ ReturnSynError
                            /\ UNCHANGED column_names
    /\ UNCHANGED <<item, groups, args_input, test_inputs, test_fn, idx, cases>>

\* One turn of `while !input.is_empty()`: bracketed!(args_input in input),
\* args_input.parse_terminated(Expr::parse), test_inputs.push(args).
ParseRow ==
    /\ pc = "parse_rows"
    /\ consumed < groups
    /\ \E t \in Trees(consumed + 1) :
         /\ consumed' = consumed + 1
         /\ tree' = t
         /\ IF ~IsBracketed(t)
            THEN /\ ReturnSynError
                 /\ UNCHANGED <<args_input, test_inputs>>
            ELSE /\ args_input' = t.stream
                 /\ IF ParseTerminated(t.stream, "Expr").ok
                    THEN /\ test_inputs' =
                              Append(test_inputs,
                                     [values |->
                                        ParseTerminated(t.stream, "Expr").values])
                         /\ UNCHANGED <<output, pc>>
                    ELSE /\ ReturnSynError
                         /\ UNCHANGED test_inputs
    /\ UNCHANGED <<item, groups, names_input, column_names, test_fn, idx, cases>>

\* The input is empty: parse returns Ok(TableSyntax {..}).
ParseFinish ==
    /\ pc = "parse_rows"
    /\ consumed = groups
    /\ pc' = "parse_item"
    /\ UNCHANGED <<item, groups, consumed, tree, names_input, args_input,
                   column_names, test_inputs, test_fn, idx, cases, output>>

\* let test_fn = syn::parse_macro_input!(item as ItemFn);
ParseItemFn ==
    /\ pc = "parse_item"
    /\ IF item.kind = "fn"
       THEN /\ test_fn' = item
            /\ pc' = "check_header"
            /\ UNCHANGED output
       ELSE /\ ReturnSynError
            /\ UNCHANGED test_fn
    /\ UNCHANGED <<item, groups, consumed, tree, names_input, args_input,
                   column_names, test_inputs, idx, cases>>

\* if column_names.len() != test_fn.sig.inputs.len() { return ... }
CheckColumnNames ==
    /\ pc = "check_header"
    /\ IF HeaderMismatch(column_names, test_fn)
       THEN /\ output' =
                 <<CompileError(HeaderMessage, PunctuatedSpan(column_names))>>
            /\ pc' = "done"
       ELSE /\ pc' = "check_rows"
            /\ UNCHANGED output
    /\ UNCHANGED <<item, groups, consumed, tree, names_input, args_input,
                   column_names, test_inputs, test_fn, idx, cases>>

\* One turn of `for args in test_inputs.iter()`.
CheckRow ==
    /\ pc = "check_rows"
    /\ idx < Len(test_inputs)
    /\ IF RowMismatch(test_inputs[idx + 1], test_fn)
       THEN /\ output' =
                 <<CompileError(RowMessage,
                                PunctuatedSpan(test_inputs[idx + 1]))>>
            /\ pc' = "done"
            /\ UNCHANGED idx
       ELSE /\ idx' = idx + 1
            /\ UNCHANGED <<output, pc>>
    /\ UNCHANGED <<item, groups, consumed, tree, names_input, args_input,
                   column_names, test_inputs, test_fn, cases>>

\* The loop ran through every row; enumerate() starts at 0.
CheckRowsDone ==
    /\ pc = "check_rows"
    /\ idx = Len(test_inputs)
    /\ idx' = 0
    /\ pc' = "map"
    /\ UNCHANGED <<item, groups, consumed, tree, names_input, args_input,
                   column_names, test_inputs, test_fn, cases, output>>

\* One turn of test_inputs.into_iter().enumerate().map(..).
MapCase ==
    /\ pc = "map"
    /\ idx < Len(test_inputs)
    /\ cases' = Append(cases, CaseFn(test_fn, idx, test_inputs[idx + 1]))
    /\ idx' = idx + 1
    /\ UNCHANGED <<item, groups, consumed, tree, names_input, args_input,
                   column_names, test_inputs, test_fn, output, pc>>

\* collect() and the final quote!.
Emit ==
    /\ pc = "map"
    /\ idx = Len(test_inputs)
    /\ output' = Expanded(test_fn, cases)
    /\ pc' = "done"
    /\ UNCHANGED <<item, groups, consumed, tree, names_input, args_input,
                   column_names, test_inputs, test_fn, idx, cases>>

Next ==
    \/ ParseColumnNames
    \/ ParseRow
    \/ ParseFinish
    \/ ParseItemFn
    \/ CheckColumnNames
    \/ CheckRow
    \/ CheckRowsDone
    \/ MapCase
    \/ Emit

Spec == Init /\ [][Next]_vars

TypeOK ==
    /\ pc \in {"parse_header", "parse_rows", "parse_item", "check_header",
               "check_rows", "map", "done"}
    /\ consumed \in 0..groups
    /\ idx \in 0..Len(test_inputs)

(***************************************************************************)
(* Vocabulary of the properties.                                           *)
(***************************************************************************)
Done == pc = "done"

Arity == Len(test_fn.inputs)

NRows == Len(test_inputs)

\* The attribute parsed, the item is a function, and the column names and
\* every row have as many entries as the function has parameters.
ValidTable ==
    /\ test_fn.kind = "fn"
    /\ Len(column_names.values) = Arity
    /\ \A r \in 1..NRows : Len(test_inputs[r].values) = Arity

IsFailure(o) == o.kind = "compile_error"

\* The entries of a group as written: its tokens other than commas.
Entries(stream) == SelectSeq(stream, LAMBDA t : ~IsComma(t))

\* Entries separated by single commas, with or without a trailing comma.
WellWritten(stream, what) ==
    \A i \in 1..Len(stream) :
        IF i % 2 = 1 THEN Accepts(what, stream[i]) ELSE IsComma(stream[i])

DecimalText == <<"0", "1", "2", "3", "4", "5", "6", "7", "8", "9">>

\* C1: a table whose column names and N rows all have the function's k
\* entries expands to the original function followed by exactly N generated
\* functions, with no failure; with N = 0 the output is the original alone.
RowCountProperty ==
    (Done /\ ValidTable) =>
        /\ Len(output) = NRows + 1
        /\ output[1] = item
        /\ \A j \in 1..Len(output) : ~IsFailure(output[j]) /\ output[j].kind = "fn"

RowCountWitness ==
    /\ Done /\ ValidTable
    /\ NRows = 2 /\ Arity = 2
    /\ Len(output) = 3

\* C2: the function generated for the row at zero-based index i is named
\* <original>_case<i>, i in decimal, and the generated functions follow the
\* table's row order.
NamingProperty ==
    (Done /\ ValidTable) =>
        /\ Len(output) = NRows + 1
        /\ \A i \in 0..(NRows - 1) :
              output[i + 2].ident = item.ident \o "_case" \o DecimalText[i + 1]

NamingWitness ==
    /\ Done /\ ValidTable
    /\ NRows >= 2
    /\ output[2].ident = "f_case0"
    /\ output[3].ident = "f_case1"

\* C3: the body of the function generated for row i is exactly one call of
\* the original function whose arguments are row i's expressions, all of
\* them, in order and unchanged.
ArgumentForwardingProperty ==
    (Done /\ ValidTable) =>
        /\ Len(output) = NRows + 1
        /\ \A i \in 0..(NRows - 1) :
              /\ output[i + 2].inputs = <<>>
              /\ output[i + 2].body =
                    <<[call |-> item.ident, args |-> test_inputs[i + 1].values]>>

\* The documented example with its column names written as identifiers.
ArgumentForwardingWitness ==
    /\ Done /\ ValidTable
    /\ item = AddWorks
    /\ names_input = IdentNames
    /\ output =
          <<AddWorks,
            ItemFn(<<"test">>, "add_works_case0", <<>>,
                   <<[call |-> "add_works",
                      args |-> <<Paren("(1, 1)", 2), Literal("2", 2)>>]>>),
            ItemFn(<<"test">>, "add_works_case1", <<>>,
                   <<[call |-> "add_works",
                      args |-> <<Paren("(2, 2)", 3), Literal("4", 3)>>]>>)>>

\* C4: when the column names' count differs from the function's parameter
\* count, the output is the header failure, attributed to the location of
\* the column-name list, whatever the rows.
HeaderMismatchProperty ==
    (Done /\ test_fn.kind = "fn" /\ Len(column_names.values) # Arity) =>
        output = <<[kind |-> "compile_error", message |-> HeaderMessage,
                    span |-> TokensSpan(1)]>>

FirstBadRow ==
    CHOOSE r \in 1..NRows :
        /\ Len(test_inputs[r].values) # Arity
        /\ \A q \in 1..(r - 1) : Len(test_inputs[q].values) = Arity

\* What the code does in the case of C4: the header failure alone, at the
\* span of the column names, which is the call site when there is none.
HeaderMismatchOutcome ==
    (Done /\ test_fn.kind = "fn" /\ Len(column_names.values) # Arity) =>
        output = <<[kind |-> "compile_error", message |-> HeaderMessage,
                    span |-> IF column_names.values = <<>>
                             THEN CallSite ELSE TokensSpan(1)]>>

\* C5: with matching column names and a row of the wrong length, the output
\* is exactly one row failure, attributed to the location of the first such
\* row in table order.
RowMismatchProperty ==
    (/\ Done /\ test_fn.kind = "fn"
     /\ Len(column_names.values) = Arity
     /\ \E r \in 1..NRows : Len(test_inputs[r].values) # Arity) =>
        output = <<[kind |-> "compile_error", message |-> RowMessage,
                    span |-> TokensSpan(FirstBadRow + 1)]>>

\* What the code does in the case of C5: one failure, for the first row of
\* the wrong length, at the span of its entries, which is the call site when
\* the row has none.
RowMismatchOutcome ==
    (/\ Done /\ test_fn.kind = "fn"
     /\ Len(column_names.values) = Arity
     /\ \E r \in 1..NRows : Len(test_inputs[r].values) # Arity) =>
        output = <<[kind |-> "compile_error", message |-> RowMessage,
                    span |-> IF test_inputs[FirstBadRow].values = <<>>
                             THEN CallSite
                             ELSE TokensSpan(FirstBadRow + 1)]>>

\* C6: every generated function carries the test attribute exactly once;
\* the original declaration is emitted unmodified, right before them, and
\* is given no test attribute.
TaggingProperty ==
    (Done /\ ValidTable) =>
        /\ Len(output) = NRows + 1
        /\ output[1] = item
        /\ \A j \in 2..Len(output) : output[j].attrs = <<"test">>

TaggingWitness ==
    /\ Done /\ ValidTable
    /\ NRows >= 1
    /\ item.attrs = <<"ignore">>
    /\ output[1].attrs = <<"ignore">>
    /\ output[2].attrs = <<"test">>

\* C7: the documented invocation, whose column names are written as the
\* string literals "input" and "expected", is accepted by the parser and
\* expands to add_works followed by one case per row.
DocExampleProperty ==
    (Done /\ item = AddWorks /\ groups = 3 /\ names_input = DocNames) =>
        /\ Len(output) = 3
        /\ output[1] = AddWorks
        /\ output[2].ident = "add_works_case0"
        /\ output[3].ident = "add_works_case1"
        /\ \A i \in 1..2 :
              output[i + 1].body =
                 <<[call |-> "add_works", args |-> test_inputs[i].values]>>

\* C8: the output is all or nothing: a single failure marker and nothing
\* else, or the original function and one case per row; the latter only
\* when every group of the attribute was parsed and the column names and
\* all rows have the function's parameter count.
AllOrNothingProperty ==
    Done =>
        \/ /\ Len(output) = 1
           /\ IsFailure(output[1])
        \/ /\ \A j \in 1..Len(output) : ~IsFailure(output[j])
           /\ consumed = groups
           /\ NRows = groups - 1
           /\ ValidTable
           /\ Len(output) = NRows + 1

AllOrNothingWitness ==
    /\ Done
    /\ test_fn.kind = "fn"
    /\ NRows >= 2
    /\ Len(column_names.values) = Arity
    /\ Len(test_inputs[1].values) = Arity
    /\ Len(test_inputs[2].values) # Arity
    /\ Len(output) = 1
    /\ IsFailure(output[1])
    /\ output[1].message = RowMessage

\* C9: the first group is the column names and every further group is one
\* row, pushed in input order, until the input is exhausted; a group written
\* as entries separated by commas is accepted with or without a trailing
\* comma, and its length is its number of entries.
TableParserProperty ==
    /\ (pc = "parse_rows") =>
          /\ NRows = consumed - 1
          /\ WellWritten(names_input, "Ident")
          /\ column_names.values = Entries(names_input)
          /\ PunctuatedLen(column_names) = Len(Entries(names_input))
          /\ consumed >= 2 =>
                /\ WellWritten(args_input, "Expr")
                /\ test_inputs[NRows].values = Entries(args_input)
                /\ PunctuatedLen(test_inputs[NRows]) = Len(Entries(args_input))
    /\ (pc \in {"parse_item", "check_header", "check_rows", "map"}) =>
          NRows = groups - 1
    /\ (/\ Done /\ item.kind = "fn" /\ IsBracketed(tree)
        /\ WellWritten(tree.stream, IF consumed = 1 THEN "Ident" ELSE "Expr")) =>
          ~(IsFailure(output[1]) /\ output[1].message = SynError.message)

TableParserWitness ==
    /\ pc = "parse_rows"
    /\ consumed = 3
    /\ Len(args_input) = 4
    /\ IsComma(args_input[4])
    /\ Len(test_inputs[2].values) = 2
    /\ Len(names_input) = 2
    /\ IsComma(names_input[2])

\* C10: the names of the generated functions are pairwise distinct and
\* differ from the original function's name.
DistinctNamesProperty ==
    (Done /\ ValidTable) =>
        /\ Len(output) = NRows + 1
        /\ \A j, k \in 1..Len(output) :
              j # k => output[j].ident # output[k].ident

DistinctNamesWitness ==
    /\ Done /\ ValidTable
    /\ NRows >= 2
    /\ item.ident = "f_case0"
    /\ output[2].ident = "f_case0_case0"

====
